---- MODULE Spec2Model ----
(***************************************************************************)
(* Cartridge loader and address translator of snesulate/src/cartridge.rs.  *)
(*                                                                         *)
(* A ROM dump is far too long to be held as a TLA+ sequence (the third     *)
(* header offset needs more than 4 MiB), so a dump is a descriptor         *)
(* (length, the three 80-byte header windows, a position-dependent filler) *)
(* and a byte slice is a view (dump, offset, length) read through ByteAt.  *)
(* A buffer (rom, ram) is its length, the content it was filled with and   *)
(* the cells that differ from that content.                                *)
(***************************************************************************)
EXTENDS Integers, Sequences, FiniteSets, TLC

VARIABLES
    pc,        \* "start", "built", "failed", "panicked", "decoded"
    input,     \* the byte buffer handed to Cartridge::from_bytes
    window,    \* the 80-byte window handed to Header::from_bytes
    parsed,    \* what Header::from_bytes returned for window
    err,       \* the ReadRomError of Cartridge::from_bytes, if any
    header,    \* Cartridge.header
    is_lorom,  \* Cartridge.is_lorom
    rom,       \* Cartridge.rom
    ram,       \* Cartridge.ram
    last,      \* the last access made and what it resolved to
    nacc       \* number of accesses made

vars == <<pc, input, window, parsed, err, header, is_lorom, rom, ram, last, nacc>>

None == <<>>
Some(x) == <<x>>

---------------------------------------------------------------------------
(* Integer primitives *)

RECURSIVE BitAnd(_, _)
BitAnd(a, b) ==
    IF a = 0 \/ b = 0 THEN 0
    ELSE (a % 2) * (b % 2) + 2 * BitAnd(a \div 2, b \div 2)

RECURSIVE BitOr(_, _)
BitOr(a, b) ==
    IF a = 0 THEN b
    ELSE IF b = 0 THEN a
    ELSE (IF a % 2 = 1 \/ b % 2 = 1 THEN 1 ELSE 0) + 2 * BitOr(a \div 2, b \div 2)

Shl(a, n) == a * 2^n

\* u32::wrapping_shl: the shift amount is taken modulo 32 and the bits
\* shifted out of the 32-bit word are lost.  x < 2^31, so keeping the low
\* 32 - s bits changes x only when s >= 2.  (A result of exactly 2^31 is
\* beyond the model checker's integers; no input of the model produces it.)
wrapping_shl(x, n) ==
    LET s == n % 32
        low == IF s < 2 THEN x ELSE x % 2^(32 - s)
    IN  low * 2^s

Not8(x) == 255 - x
Not16(x) == 65535 - x
u16_from_le_bytes(lo, hi) == lo + 256 * hi

Max(a, b) == IF a >= b THEN a ELSE b
Min(a, b) == IF a <= b THEN a ELSE b

---------------------------------------------------------------------------
(* Header decoder *)

MINIMUM_SIZE == 32768
VALID_CHAR == 2
VALID_CHECKSUM_COMPLEMENT == 32
VALID_SPEED_INDICATION == 24
KNOWN_COUNTRY == 10

split_byte(byte) == <<byte \div 16, BitAnd(byte, 15)>>

RomType_from_byte(byte) ==
    CASE byte = 0 -> Some("LoRom")
      [] byte = 1 -> Some("HiRom")
      [] byte = 2 -> Some("LoRomSDD1")
      [] byte = 3 -> Some("LoRomSA1")
      [] byte = 5 -> Some("ExHiRom")
      [] byte = 10 -> Some("HiRomSPC7110")
      [] OTHER -> None

\* s[i] of a Rust slice held as a 1-based sequence
Idx(s, i) == s[i + 1]
\* s[a..b]
Range(s, a, b) == SubSeq(s, a + 1, b)

\* the loop over the 21 title bytes; acc = [name, score, len]
RECURSIVE TitleScan(_, _, _)
TitleScan(bytes, i, acc) ==
    IF i = 21 THEN acc
    ELSE LET c == Idx(bytes, i)
             printable == c >= 32 /\ c <= 126
         IN  TitleScan(bytes, i + 1,
                 [name  |-> IF printable THEN Append(acc.name, c) ELSE acc.name,
                  score |-> IF printable THEN acc.score + VALID_CHAR ELSE acc.score,
                  len   |-> IF c = 32 THEN acc.len - 1 ELSE 21])

\* String::truncate
truncate(s, n) == IF n < Len(s) THEN SubSeq(s, 1, n) ELSE s

\* `speed & !1 == 1` on u8: `&` binds tighter than `==`, `!1` is 0xfe
SpeedIndicated(speed) == BitAnd(speed, Not8(1)) = 1

NoExtendedHeader ==
    [maker |-> <<>>, game |-> <<>>, flash_size |-> 0, ram_size |-> 0,
     special_version |-> 0]

ExtendedOf(full_bytes, bytes, developer_id) ==
    IF developer_id = 51
    THEN [tag |-> "Later", subtype |-> Idx(full_bytes, 15),
          header |-> [maker |-> Range(full_bytes, 0, 2),
                      game |-> Range(full_bytes, 2, 6),
                      flash_size |-> wrapping_shl(1024, Idx(full_bytes, 12)),
                      ram_size |-> wrapping_shl(1024, Idx(full_bytes, 13)),
                      special_version |-> Idx(full_bytes, 14)]]
    ELSE IF Idx(bytes, 20) = 0
    THEN [tag |-> "Old", subtype |-> Idx(full_bytes, 15), header |-> NoExtendedHeader]
    ELSE [tag |-> "None", subtype |-> 0, header |-> NoExtendedHeader]

\* Header::from_bytes: None, or Some(<<header, score>>)
Header_from_bytes(full_bytes) ==
    LET bytes == Range(full_bytes, 16, 80)
        t == TitleScan(bytes, 0, [name |-> <<>>, score |-> 0, len |-> 21])
        name == truncate(t.name, t.len)
        sb == split_byte(Idx(bytes, 21))
        speed == sb[1]
        score1 == t.score + (IF SpeedIndicated(speed) THEN VALID_SPEED_INDICATION ELSE 0)
        is_fast == BitAnd(speed, 1) = 1
        rom_type == RomType_from_byte(sb[2])
        cc == split_byte(Idx(bytes, 22))
        rom_size == wrapping_shl(1024, Idx(bytes, 23))
        ram_size == wrapping_shl(1024, Idx(bytes, 24))
        country == Idx(bytes, 25)
        score2 == score1 + (IF country <= 20 THEN KNOWN_COUNTRY ELSE 0)
        developer_id == Idx(bytes, 26)
        version == Idx(bytes, 27)
        checksum_complement == u16_from_le_bytes(Idx(bytes, 28), Idx(bytes, 29))
        checksum == u16_from_le_bytes(Idx(bytes, 30), Idx(bytes, 31))
        score3 == score2 + (IF checksum_complement = Not16(checksum)
                            THEN VALID_CHECKSUM_COMPLEMENT ELSE 0)
    IN  IF rom_type = None THEN None
        ELSE Some(<<[name |-> name,
                     speed |-> speed,
                     rom_type |-> rom_type[1],
                     extended |-> ExtendedOf(full_bytes, bytes, developer_id),
                     is_fast |-> is_fast,
                     coprocessor |-> cc[1],
                     chips |-> cc[2],
                     rom_size |-> rom_size,
                     ram_size |-> ram_size,
                     country |-> country,
                     checksum |-> checksum,
                     version |-> version],
                    score3>>)

---------------------------------------------------------------------------
(* Byte buffers handed to the loader *)

\* the offset table with the second offset taken for a 32 KiB-mode one
HeaderOffsetsSecondLo == <<<<32688, TRUE>>, <<65456, TRUE>>, <<4259760, FALSE>>>>

\* the three canonical header offsets 0x7fb0, 0xffb0, 0x40ffb0, each with
\* the is_lorom flag the scanner records for it
HeaderOffsets == <<<<32688, TRUE>>, <<65456, FALSE>>, <<4259760, FALSE>>>>

\* bytes of a dump outside its header windows: differs between k and
\* k - n for every dump length n of the model
Filler(k) == (k + 3 * (k \div 512)) % 256

\* A dump d = [len, hdr]: hdr[i] is the 80-byte window found at the i-th
\* canonical offset once a 512-byte copier header, if any, is skipped.
CopierLen(d) == IF d.len % 1024 = 0 THEN 0 ELSE 512

RawAt(d, k) ==
    LET j == k - CopierLen(d)
        hit == {i \in 1..Len(HeaderOffsets) :
                    j >= HeaderOffsets[i][1] /\ j < HeaderOffsets[i][1] + 80}
    IN  IF hit = {} THEN Filler(k)
        ELSE LET i == CHOOSE x \in hit : TRUE
             IN  d.hdr[i][j - HeaderOffsets[i][1] + 1]

\* &[u8]: a view of len bytes of dump d starting at off
Whole(d) == [d |-> d, off |-> 0, len |-> d.len]
ByteAt(s, i) == RawAt(s.d, s.off + i)
\* &s[a..]
SliceFrom(s, a) == [d |-> s.d, off |-> s.off + a, len |-> s.len - a]
\* &s[addr..addr + 80] as a sequence
WindowAt(s, addr) == [i \in 1..80 |-> ByteAt(s, addr + i - 1)]

---------------------------------------------------------------------------
(* Buffers: Vec<u8> as length, initial fill and the cells that differ *)

\* the tiling with a short last chunk filled from the end of the dump
RomFillFromTail(bytes, total, k) ==
    LET c == k \div bytes.len
        chunk_len == Min(bytes.len, total - c * bytes.len)
        j == k - c * bytes.len
    IN  ByteAt(bytes, bytes.len - chunk_len + j)

\* rom.chunks_mut(bytes.len()) / chunk.copy_from_slice(&bytes[..chunk.len()]):
\* cell k lies in chunk k / bytes.len() at position j of that chunk
RomFill(bytes, total, k) ==
    LET c == k \div bytes.len
        chunk_len == Min(bytes.len, total - c * bytes.len)
        j == k - c * bytes.len
    IN  ByteAt([d |-> bytes.d, off |-> bytes.off, len |-> chunk_len], j)

\* vec![0u8; n] then tiled from bytes
RomVec(bytes, n) == [len |-> n, fill |-> Some(bytes), w |-> <<>>]
\* vec![0; n]
ZeroVec(n) == [len |-> n, fill |-> None, w |-> <<>>]

FillAt(buf, k) == IF buf.fill = None THEN 0 ELSE RomFill(buf.fill[1], buf.len, k)
BufAt(buf, k) == IF k \in DOMAIN buf.w THEN buf.w[k] ELSE FillAt(buf, k)
BufSet(buf, k, v) ==
    LET keep == DOMAIN buf.w \ {k}
    IN  IF v = FillAt(buf, k)
        THEN IF keep = {} THEN [buf EXCEPT !.w = <<>>]
             ELSE [buf EXCEPT !.w = [x \in keep |-> buf.w[x]]]
        ELSE [buf EXCEPT !.w = (k :> v) @@ [x \in keep |-> buf.w[x]]]

---------------------------------------------------------------------------
(* Cartridge builder *)

TooSmall(size) == <<"TooSmall", size>>
AlignError(size) == <<"AlignError", size>>
NoSuitableHeader == <<"NoSuitableHeader">>

\* the alignment test with the mask one bit short
MisalignedShortMask(n) == BitAnd(n, 255) # 0

\* bytes.len() & 0x1ff != 0
Misaligned(n) == BitAnd(n, 511) # 0

\* bytes.len() & 0x3ff == 0 keeps the buffer, anything else drops 512 bytes
StripCopier(bytes) == IF BitAnd(bytes.len, 1023) = 0 THEN bytes ELSE SliceFrom(bytes, 512)

\* the comparison letting a later candidate win a tie
BetterOrEqual(score, s) == score >= s

\* score > *s
Better(score, s) == score > s

\* the loop over the header offsets; best is None or Some(<<header, score, is_lorom>>)
RECURSIVE Scan(_, _, _)
Scan(bytes, i, best) ==
    IF i > Len(HeaderOffsets) THEN best
    ELSE LET addr == HeaderOffsets[i][1]
             new == IF bytes.len >= addr + 80
                    THEN Header_from_bytes(WindowAt(bytes, addr))
                    ELSE None
             take == new # None /\ (best = None \/ Better(new[1][2], best[1][2]))
         IN  Scan(bytes, i + 1,
                  IF take THEN Some(<<new[1][1], new[1][2], HeaderOffsets[i][2]>>)
                  ELSE best)

NoCartridge ==
    [header |-> None, is_lorom |-> FALSE, rom |-> ZeroVec(0), ram |-> ZeroVec(0)]

\* Cartridge::from_bytes: [err, header, is_lorom, rom, ram]; err = None is Ok.
\* The checksum fold of lines 217..220 only prints a warning.
Cartridge_from_bytes(bytes0) ==
    IF bytes0.len < MINIMUM_SIZE
    THEN NoCartridge @@ [err |-> Some(TooSmall(bytes0.len))]
    ELSE IF Misaligned(bytes0.len)
    THEN NoCartridge @@ [err |-> Some(AlignError(bytes0.len))]
    ELSE LET bytes == StripCopier(bytes0)
             found == Scan(bytes, 1, None)
         IN  IF found = None
             THEN NoCartridge @@ [err |-> Some(NoSuitableHeader)]
             ELSE LET h == found[1][1]
                  IN  [err |-> None,
                       header |-> Some(h),
                       is_lorom |-> found[1][3],
                       rom |-> RomVec(bytes, Max(h.rom_size, bytes.len)),
                       ram |-> ZeroVec(h.ram_size)]

---------------------------------------------------------------------------
(* Accessor *)

\* The Access capability (crate::device): Read yields the byte at the
\* index, Write(v) stores v there and yields (); both index the slice.
Read == [op |-> "Read", v |-> 0]
Write(v) == [op |-> "Write", v |-> v]
Unit == <<>>

NoFault == "none"

access_slice(a, slice, index) ==
    IF index >= slice.len
    THEN [fault |-> "index out of bounds", buf |-> slice, index |-> index, out |-> None]
    ELSE IF a.op = "Read"
    THEN [fault |-> NoFault, buf |-> slice, index |-> index,
          out |-> Some(BufAt(slice, index))]
    ELSE [fault |-> NoFault, buf |-> BufSet(slice, index, a.v), index |-> index,
          out |-> Some(Unit)]

\* `len - 1` on usize with len = 0: a build with overflow checks panics, a
\* build without them wraps to usize::MAX, and index & usize::MAX = index.
\* The set of outcomes the builds can produce.
MaskedAccess(a, buf, index) ==
    IF buf.len = 0
    THEN {[fault |-> "attempt to subtract with overflow", buf |-> buf,
           index |-> index, out |-> None],
          access_slice(a, buf, index)}
    ELSE {access_slice(a, buf, BitAnd(index, buf.len - 1))}

access_ram(c, a, index) ==
    {[target |-> "ram", index |-> r.index, fault |-> r.fault, out |-> r.out,
      rom |-> c.rom, ram |-> r.buf] : r \in MaskedAccess(a, c.ram, index)}

access_rom(c, a, index) ==
    {[target |-> "rom", index |-> r.index, fault |-> r.fault, out |-> r.out,
      rom |-> r.buf, ram |-> c.ram] : r \in MaskedAccess(a, c.rom, index)}

Unmapped(c) ==
    {[target |-> "none", index |-> 0, fault |-> NoFault, out |-> None,
      rom |-> c.rom, ram |-> c.ram]}

\* Cartridge::access on c = [is_lorom, rom, ram]: the outcomes it can have
access(c, a, bank, addr) ==
    IF c.is_lorom
    THEN IF ((bank >= 112 /\ bank <= 125) \/ bank >= 240) /\ addr <= 32767
         THEN access_ram(c, a, BitOr(Shl(BitAnd(bank, 15), 15), addr))
         ELSE IF bank >= 64 \/ addr >= 32768
         THEN access_rom(c, a, BitOr(Shl(BitAnd(bank, 127), 15), BitAnd(addr, 32767)))
         ELSE Unmapped(c)
    ELSE LET b == BitAnd(bank, 127)
         IN  IF b <= 63 /\ addr >= 24576 /\ addr <= 32767
             THEN access_ram(c, a, BitOr(Shl(BitAnd(bank, 63), 13), BitAnd(addr, 8191)))
             ELSE IF b >= 64 \/ addr >= 32768
             THEN access_rom(c, a, BitOr(Shl(BitAnd(bank, 63), 16), addr))
             ELSE Unmapped(c)

---------------------------------------------------------------------------
(* Inputs *)

MaxSizeByte == 7     \* declared ROM sizes 1 KiB .. 1024 << MaxSizeByte, and wraps
MaxAccesses == 2     \* accesses made on one cartridge

Rep(x, n) == [i \in 1..n |-> x]

TitleGame == <<71, 65, 77, 69>> \o Rep(32, 17)       \* "GAME" and padding
TitleRaw == <<71, 65>> \o Rep(0, 19)                 \* "GA" and NULs
TitleHigh == Rep(255, 21)                            \* nothing printable

\* An 80-byte window: 16 bytes of extended header, then the primary
\* header with the given title, speed/mapping byte, size bytes, country,
\* developer id and a checksum pair that matches or not.
MkWindow(title, mode, rom_b, ram_b, country, dev, ck_ok) ==
    <<48, 49, 65, 66, 67, 68, 0, 0, 0, 0, 0, 0, 1, 2, 3, 4>>
    \o title
    \o <<mode, 2, rom_b, ram_b, country, dev, 0>>
    \o (IF ck_ok THEN <<203, 237>> ELSE <<0, 0>>)
    \o <<52, 18>>
    \o Rep(0, 32)

WLo == MkWindow(TitleGame, 32, 5, 3, 1, 51, TRUE)        \* 8 KiB RAM
WTie == MkWindow(TitleGame, 49, 6, 1, 2, 0, TRUE)        \* same score as WLo
WLow == MkWindow(TitleGame, 32, 5, 3, 1, 51, FALSE)      \* WLo, checksum pair broken
WNoRam == MkWindow(TitleGame, 32, 5, 22, 21, 0, TRUE)    \* 1024 << 22 wraps to 0
WBad == MkWindow(TitleGame, 36, 5, 0, 1, 0, TRUE)        \* mode nibble 4

\* the i-th header window lies inside a dump of n bytes
InRange(n, i) ==
    /\ n >= MINIMUM_SIZE
    /\ n % 512 = 0
    /\ n - (IF n % 1024 = 0 THEN 0 ELSE 512) >= HeaderOffsets[i][1] + 80

\* a window the loader never reads is WBad
DumpsOf(lens, W1, W2) ==
    {[len |-> n,
      hdr |-> <<IF InRange(n, 1) THEN a ELSE WBad,
                IF InRange(n, 2) THEN b ELSE WBad,
                IF InRange(n, 3) THEN c ELSE WBad>>] :
        n \in lens, a \in W1, b \in W2, c \in W2}

NoDump == [len |-> 0, hdr |-> <<WBad, WBad, WBad>>]

SizeBytes == (0..MaxSizeByte) \cup {22, 37}
RamSizeBytes == {0, 3, 22}

BuildWindows ==
    {MkWindow(TitleGame, m, r, s, c, 0, k) :
        m \in {32, 49, 36}, r \in SizeBytes, s \in RamSizeBytes,
        c \in {1, 21}, k \in BOOLEAN}

BuildLens ==
    {0, 100, 512, 32256, 32767, 32769, 33024, 33279, 65537,
     32768, 33280, 33792, 49152, 65536, 66048, 4259840, 4260352}

AccessWindows == {WLo, WNoRam, WBad}
AccessLens == {32768, 33280, 49152, 65536}

HeaderWindows ==
    {MkWindow(t, m, 5, s, c, d, k) :
        t \in {TitleGame, TitleRaw, TitleHigh},
        m \in {0, 16, 32, 48, 33, 53, 42, 36, 63},
        s \in {0, 22}, c \in {0, 20, 21}, d \in {0, 51}, k \in BOOLEAN}

Banks == {0, 63, 64, 111, 112, 125, 126, 128, 191, 192, 239, 240, 255}
Offsets == {0, 24575, 24576, 32767, 32768, 36864, 65535}
Accesses == {Read, Write(165)}

NoAccess ==
    [op |-> Read, bank |-> 0, addr |-> 0, target |-> "none", index |-> 0,
     fault |-> NoFault, out |-> None]

---------------------------------------------------------------------------
(* The machine *)

InitWith(dumps, windows) ==
    /\ pc = "start"
    /\ input \in dumps
    /\ window \in windows
    /\ parsed = None
    /\ err = None
    /\ header = None
    /\ is_lorom = FALSE
    /\ rom = ZeroVec(0)
    /\ ram = ZeroVec(0)
    /\ last = NoAccess
    /\ nacc = 0

Init == InitWith(DumpsOf(AccessLens, AccessWindows, AccessWindows), {<<>>})
InitBuild == InitWith(DumpsOf(BuildLens, BuildWindows, {WLo, WTie, WLow, WBad}), {<<>>})
InitHeader == InitWith({NoDump}, HeaderWindows)

\* Cartridge::from_bytes(input)
FromBytes ==
    /\ pc = "start"
    /\ \E r \in {Cartridge_from_bytes(Whole(input))} :
           /\ pc' = IF r.err = None THEN "built" ELSE "failed"
           /\ err' = r.err
           /\ header' = r.header
           /\ is_lorom' = r.is_lorom
           /\ rom' = r.rom
           /\ ram' = r.ram
    /\ UNCHANGED <<input, window, parsed, last, nacc>>

\* cartridge.access(a, Addr24 { bank, addr })
DoAccess ==
    /\ pc = "built"
    /\ nacc < MaxAccesses
    /\ \E a \in Accesses, bank \in Banks, addr \in Offsets :
        \E r \in access([is_lorom |-> is_lorom, rom |-> rom, ram |-> ram], a, bank, addr) :
            /\ pc' = IF r.fault = NoFault THEN "built" ELSE "panicked"
            /\ rom' = r.rom
            /\ ram' = r.ram
            /\ last' = [op |-> a, bank |-> bank, addr |-> addr, target |-> r.target,
                        index |-> r.index, fault |-> r.fault, out |-> r.out]
    /\ nacc' = nacc + 1
    /\ UNCHANGED <<input, window, parsed, err, header, is_lorom>>

\* Header::from_bytes(window)
Decode ==
    /\ pc = "start"
    /\ parsed' = Header_from_bytes(window)
    /\ pc' = "decoded"
    /\ UNCHANGED <<input, window, err, header, is_lorom, rom, ram, last, nacc>>

Next == FromBytes \/ DoAccess
Spec == Init /\ [][Next]_vars

NextBuild == FromBytes
SpecBuild == InitBuild /\ [][NextBuild]_vars

NextHeader == Decode
SpecHeader == InitHeader /\ [][NextHeader]_vars

---------------------------------------------------------------------------
(* Properties *)

\* the buffer the loader works on once a copier header is dropped
Stripped == IF input.len % 1024 = 0 THEN Whole(input) ELSE SliceFrom(Whole(input), 512)

\* the decode table as the specification words it
TableTarget(lo, bank, off) ==
    IF lo
    THEN IF (bank \in 112..125 \/ bank >= 240) /\ off < 32768 THEN "ram"
         ELSE IF bank >= 64 \/ off >= 32768 THEN "rom"
         ELSE "none"
    ELSE IF bank % 128 <= 63 /\ off \in 24576..32767 THEN "ram"
         ELSE IF bank % 128 >= 64 \/ off >= 32768 THEN "rom"
         ELSE "none"

TableIndex(lo, bank, off) ==
    IF lo
    THEN IF TableTarget(lo, bank, off) = "ram"
         THEN (bank % 16) * 32768 + off
         ELSE (bank % 128) * 32768 + (off % 32768)
    ELSE IF TableTarget(lo, bank, off) = "ram"
         THEN (bank % 64) * 8192 + (off % 8192)
         ELSE (bank % 64) * 65536 + off

Accessed == nacc > 0 /\ pc \in {"built", "panicked"}
LastTarget == TableTarget(is_lorom, last.bank, last.addr)
LastIndex == TableIndex(is_lorom, last.bank, last.addr)

\* C1: every access resolves to the target of the decode table and to the
\* table's linear index masked by the length of that buffer minus one, and
\* an address outside both regions is reported unmapped.
C1_DecodeTable ==
    Accessed =>
        /\ last.fault = NoFault
        /\ last.target = LastTarget
        /\ LastTarget = "ram" => last.index = BitAnd(LastIndex, ram.len - 1)
        /\ LastTarget = "rom" => last.index = BitAnd(LastIndex, rom.len - 1)
        /\ LastTarget = "none" => last.out = None

IsPowerOfTwo(n) == \E k \in 0..30 : n = 2^k

\* C2: the ROM and RAM buffers of every constructed cartridge have a length
\* that is an exact power of two.
C2_PowerOfTwoLengths ==
    pc = "built" => IsPowerOfTwo(rom.len) /\ IsPowerOfTwo(ram.len)

\* C3: after a write of v at an address the decode table maps to RAM, the
\* write has completed and a read at the same address returns Some(v).
C3_RamRoundTrip ==
    (Accessed /\ last.op.op = "Write" /\ LastTarget = "ram") =>
        /\ pc = "built"
        /\ \A r \in access([is_lorom |-> is_lorom, rom |-> rom, ram |-> ram],
                           Read, last.bank, last.addr) :
               r.fault = NoFault /\ r.out = Some(last.op.v)

\* indices probed in a buffer of total bytes tiled from n bytes: the ends of
\* every chunk, the header windows and a coarse sweep
Probes(total, n) ==
    {k \in {0, 1, n - 1, n, n + 1, 2 * n - 1, 2 * n, total - n, total - 2, total - 1,
            32687, 32688, 32767, n + 32688, (total \div n) * n,
            (total \div n) * n + 1, (total \div n) * n - 1} : k >= 0 /\ k < total}
    \cup {k \in 0..(total - 1) : k % 4099 = 0}

\* C4: when the stripped dump is shorter than the declared ROM size, the ROM
\* buffer has the declared size and cell k holds byte k mod dump length of
\* the dump, in the final partial chunk too.
C4_RomTiled ==
    (pc = "built" /\ Stripped.len < header[1].rom_size) =>
        /\ rom.len = header[1].rom_size
        /\ \A k \in Probes(rom.len, Stripped.len) :
               BufAt(rom, k) = ByteAt(Stripped, k % Stripped.len)

C4_Witness ==
    /\ pc = "built"
    /\ Stripped.len < header[1].rom_size
    /\ rom.len % Stripped.len # 0
    /\ BufAt(rom, rom.len - 1) = ByteAt(Stripped, (rom.len - 1) % Stripped.len)
    /\ BufAt(rom, rom.len - 1) # ByteAt(Stripped, Stripped.len - 1)

\* C5: no access changes the ROM buffer: it holds the bytes construction
\* gave it.
C5_RomUnchanged ==
    pc \in {"built", "panicked"} => rom = RomVec(Stripped, rom.len)

\* what each canonical offset decodes to: None when its window does not
\* lie inside the dump or its mode nibble does not decode
Decoded ==
    [i \in 1..3 |->
        IF Stripped.len >= HeaderOffsets[i][1] + 80
        THEN Header_from_bytes(WindowAt(Stripped, HeaderOffsets[i][1]))
        ELSE None]
Candidates(dec) == {i \in 1..3 : dec[i] # None}
HeaderAt(dec, i) == dec[i][1][1]
ScoreAt(dec, i) == dec[i][1][2]
\* the strictly highest score, the first probed among equals
Winner(dec) ==
    CHOOSE i \in Candidates(dec) :
        \A j \in Candidates(dec) :
            \/ ScoreAt(dec, i) > ScoreAt(dec, j)
            \/ (ScoreAt(dec, i) = ScoreAt(dec, j) /\ i <= j)

\* C6: the cartridge's header and mapping-mode flag are those of the
\* candidate with the highest score, the first probed among equal scores.
C6_SelectsBest ==
    pc = "built" =>
        \A dec \in {Decoded} :
            /\ Candidates(dec) # {}
            /\ header = Some(HeaderAt(dec, Winner(dec)))
            /\ is_lorom = HeaderOffsets[Winner(dec)][2]

C6_Witness ==
    /\ pc = "built"
    /\ \E dec \in {Decoded} :
        /\ {1, 2} \subseteq Candidates(dec)
        /\ ScoreAt(dec, 2) = ScoreAt(dec, 1) + VALID_CHECKSUM_COMPLEMENT
        /\ Winner(dec) = 2
        /\ header = Some(HeaderAt(dec, 2))
        /\ header # Some(HeaderAt(dec, 1))
    /\ ~is_lorom

C8_AlignErrorAlways ==
    (pc # "start" /\ input.len % 512 # 0) => err = Some(AlignError(input.len))

\* C8 amended: a length of at least 32768 that is not a multiple of 512
\* fails with AlignError carrying the length; a length under 32768 fails
\* with TooSmall carrying the length, aligned or not.
C8_AlignErrorFromMinimum ==
    pc # "start" =>
        /\ (input.len >= 32768 /\ input.len % 512 # 0) => err = Some(AlignError(input.len))
        /\ input.len < 32768 => err = Some(TooSmall(input.len))

C8_Witness ==
    /\ pc = "failed"
    /\ input.len = 33024
    /\ err = Some(AlignError(33024))

\* C9: on a cartridge whose RAM buffer is empty, an access in the RAM region
\* of the active table is reported unmapped, without a fault.
C9_ZeroRamUnmapped ==
    (Accessed /\ ram.len = 0 /\ LastTarget = "ram") =>
        /\ pc = "built"
        /\ last.fault = NoFault
        /\ last.out = None

\* the score as the specification words it
TablePrintable(w) == Cardinality({i \in 17..37 : w[i] >= 32 /\ w[i] <= 126})
TableScore(w) ==
    2 * TablePrintable(w)
    + (IF (w[38] \div 16) % 2 = 1 THEN 24 ELSE 0)
    + (IF w[42] <= 20 THEN 10 ELSE 0)
    + (IF w[45] + 256 * w[46] = 65535 - (w[47] + 256 * w[48]) THEN 32 ELSE 0)

\* C10: the score of a decoded window is 2 per printable title byte, 10 for
\* a country up to 20, 32 for a matching checksum complement, and 24 exactly
\* when bit 0 of the high nibble of the speed/mapping byte is set.
C10_ScoreHasSpeedBit ==
    (pc = "decoded" /\ parsed # None) => parsed[1][2] = TableScore(window)

====
